---- MODULE Spec2Model ----
(***************************************************************************)
(* Users and Tasks behind the HTTP routes of src/routes/users.js: the two  *)
(* collections, and the handlers that keep Task.assignedUser and           *)
(* User.pendingTasks consistent.  In Spec every handler is one action:     *)
(* requests run one at a time, each to completion, and no store call       *)
(* fails.  SpecQuery answers the read routes, SpecNorm runs the normalizer *)
(* on any list, SpecFail runs one request store call by store call with    *)
(* calls that may throw, and SpecConc interleaves the calls of requests.   *)
(*                                                                         *)
(* Representation.  Ids are store-generated and never reused: User ids are *)
(* 1..MaxUsers and Task ids 1..MaxTasks, handed out in increasing order.   *)
(* The empty string of assignedUser ('' = unassigned) is the id 0.  An     *)
(* e-mail address is a sequence of one-character strings.  A Task carries  *)
(* name, completed, assignedUser and assignedUserName; description and     *)
(* deadline are written by the same assignments as name and are read by no *)
(* handler, so the request's deadline is kept as its presence only.        *)
(***************************************************************************)
EXTENDS Integers, Sequences, FiniteSets, TLC

\* ------------------------------------------------------------------ bounds
MaxUsers == 2
MaxTasks == 2
MaxReqLen == 2

UserIds == 1..MaxUsers
TaskIds == 1..MaxTasks

\* ------------------------------------------------------- input alphabets
UserNames == {"alice", "bob"}
TaskNames == {"A"}
Emails == {<<"a", "@", "x">>, <<"b", "@", "x">>}
BadEmails == {<<"a", "x">>}
Unassigned == "unassigned"

VARIABLES users, tasks, nextUserId, nextTaskId, last, reply, calls, procs

\* What the requests served one at a time leave alone: the answer to the last
\* read request, the log of store calls, and the requests in flight.
aux == <<reply, calls, procs>>

vars == <<users, tasks, nextUserId, nextTaskId, last, reply, calls, procs>>

NoUserDoc == [exists |-> FALSE, name |-> "", email |-> <<>>, pendingTasks |-> <<>>]
NoTaskDoc ==
  [exists |-> FALSE, name |-> "", completed |-> FALSE,
   assignedUser |-> 0, assignedUserName |-> ""]

\* ------------------------------------------------------------ list helpers
InSeq(s, x) == \E i \in 1..Len(s) : s[i] = x

Count(s, x) == Cardinality({i \in 1..Len(s) : s[i] = x})

SeqsUpTo(S, n) == UNION {[1..k -> S] : k \in 0..n}

\* Array.from(new Set(list)): first occurrences, in order.
RECURSIVE Dedup(_)
Dedup(s) ==
  IF s = <<>> THEN <<>>
  ELSE <<Head(s)>> \o SelectSeq(Dedup(Tail(s)), LAMBDA x : x # Head(s))

\* $pull: every occurrence of x is removed.
Pull(s, x) == SelectSeq(s, LAMBDA y : y # x)

\* $addToSet: x is appended unless already present.
AddToSet(s, x) == IF InSeq(s, x) THEN s ELSE Append(s, x)

\* ---------------------------------------------------------- store helpers
UserFindById(us, id) == IF id \in DOMAIN us THEN us[id] ELSE NoUserDoc

TaskFindById(ts, id) == IF id \in DOMAIN ts THEN ts[id] ELSE NoTaskDoc

UserPull(us, uid, tid) ==
  IF UserFindById(us, uid).exists
  THEN [us EXCEPT ![uid].pendingTasks = Pull(@, tid)]
  ELSE us

UserAddToSet(us, uid, tid) ==
  IF UserFindById(us, uid).exists
  THEN [us EXCEPT ![uid].pendingTasks = AddToSet(@, tid)]
  ELSE us

UserSetPending(us, uid, p) ==
  IF UserFindById(us, uid).exists
  THEN [us EXCEPT ![uid].pendingTasks = p]
  ELSE us

\* Mutant: the list is written back whether or not it changed.
NormalizeWritesAlways(us, userId) ==
  IF UserFindById(us, userId).exists
  THEN <<[op |-> "updateOne", user |-> userId,
          pendingTasks |-> Dedup(UserFindById(us, userId).pendingTasks)]>>
  ELSE <<>>

\* The store writes normalizePendingTasksForUser issues: none, or one updateOne.
NormalizeWrites(us, userId) ==
  LET u == UserFindById(us, userId)
      normalized == Dedup(u.pendingTasks)
      same == /\ Len(normalized) = Len(u.pendingTasks)
              /\ \A i \in 1..Len(normalized) : normalized[i] = u.pendingTasks[i]
  IN  IF ~u.exists THEN <<>>
      ELSE IF ~same
           THEN <<[op |-> "updateOne", user |-> userId, pendingTasks |-> normalized]>>
           ELSE <<>>

normalizePendingTasksForUser(us, userId) ==
  LET u == UserFindById(us, userId)
      normalized == Dedup(u.pendingTasks)
      same == /\ Len(normalized) = Len(u.pendingTasks)
              /\ \A i \in 1..Len(normalized) : normalized[i] = u.pendingTasks[i]
  IN  IF ~u.exists THEN us
      ELSE IF ~same THEN UserSetPending(us, userId, normalized)
      ELSE us

\* Task.find({_id: {$in: ids}}): the stored Tasks among ids, in store order.
TaskFindIn(ts, ids) ==
  SelectSeq([i \in 1..MaxTasks |-> i], LAMBDA t : ts[t].exists /\ InSeq(ids, t))

emailContainsAt(e) == \E i \in 1..Len(e) : e[i] = "@"

\* The unique index on email: some other User already holds this address.
DuplicateEmail(us, id, email) ==
  \E o \in DOMAIN us : o # id /\ us[o].exists /\ us[o].email = email

\* ------------------------------------------------------------- responses
\* sendResponse(res, status, message, data) / res.status(204).end()
Outcome(status, message, us, ts) ==
  [status |-> status, message |-> message, users |-> us, tasks |-> ts]

\* ------------------------------------------------------------ POST /users
PostUserHandler(us, ts, newId, body) ==
  IF body.name = "" \/ body.email = <<>>
  THEN Outcome(400, "User must have a name and an email", us, ts)
  ELSE IF ~emailContainsAt(body.email)
  THEN Outcome(400, "Invalid email format", us, ts)
  ELSE IF Len(body.pendingTasks) > 0
  THEN Outcome(400, "Cannot set pendingTasks when creating a new user", us, ts)
  ELSE IF DuplicateEmail(us, newId, body.email)
  THEN Outcome(400, "A user with that email already exists", us, ts)
  ELSE LET saved == [us EXCEPT ![newId] =
                       [exists |-> TRUE, name |-> body.name, email |-> body.email,
                        pendingTasks |-> <<>>]]
       IN  Outcome(201, "User created", normalizePendingTasksForUser(saved, newId), ts)

\* --------------------------------------------------------- PUT /users/:id
\* user.pendingTasks as set on the in-memory document.
RequestedPending(body) ==
  IF body.pendingIsArray THEN Dedup(body.pendingTasks) ELSE <<>>

\* Mutant: previous owners keep the Tasks that are taken from them.
PullFromPreviousOwnersSkips(us, ts, found, userId) == us

\* for (const t of tasks): pull t from a previous owner other than this User.
RECURSIVE PullFromPreviousOwners(_, _, _, _)
PullFromPreviousOwners(us, ts, found, userId) ==
  IF found = <<>> THEN us
  ELSE LET t == Head(found)
           prev == ts[t].assignedUser
           us1 == IF ts[t].completed \/ prev = 0 \/ prev = userId
                  THEN us
                  ELSE normalizePendingTasksForUser(UserPull(us, prev, t), prev)
       IN  PullFromPreviousOwners(us1, ts, Tail(found), userId)

\* Task.updateMany({_id: {$in: incomplete}}, {$set: {assignedUser, assignedUserName}})
AssignTasks(ts, incomplete, userId, name) ==
  [t \in DOMAIN ts |->
     IF ts[t].exists /\ InSeq(incomplete, t)
     THEN [ts[t] EXCEPT !.assignedUser = userId, !.assignedUserName = name]
     ELSE ts[t]]

\* Mutant: the Tasks dropped from the pending set stay assigned.
UnassignRemovedSkips(ts, removed) == ts

\* Task.updateMany({_id: {$in: removed}, completed: false}, {$set: unassigned})
UnassignRemoved(ts, removed) ==
  [t \in DOMAIN ts |->
     IF ts[t].exists /\ InSeq(removed, t) /\ ~ts[t].completed
     THEN [ts[t] EXCEPT !.assignedUser = 0, !.assignedUserName = Unassigned]
     ELSE ts[t]]

\* Task.updateMany({assignedUser: user._id}, {$set: {assignedUserName: user.name}})
RefreshAssignedUserName(ts, userId, name) ==
  [t \in DOMAIN ts |->
     IF ts[t].exists /\ ts[t].assignedUser = userId
     THEN [ts[t] EXCEPT !.assignedUserName = name]
     ELSE ts[t]]

\* Everything PUT /users/:id does after user.save().
PutUserCascade(us, ts, userId, name, req, prevPending) ==
  LET found == TaskFindIn(ts, req)
      incomplete == SelectSeq(found, LAMBDA t : ~ts[t].completed)
      us1 == IF Len(req) > 0
             THEN UserSetPending(PullFromPreviousOwners(us, ts, found, userId),
                                 userId, incomplete)
             ELSE us
      ts1 == IF Len(req) > 0 /\ Len(incomplete) > 0
             THEN AssignTasks(ts, incomplete, userId, name)
             ELSE ts
      removed == SelectSeq(prevPending, LAMBDA t : ~InSeq(req, t))
      ts2 == IF Len(removed) > 0 THEN UnassignRemoved(ts1, removed) ELSE ts1
      ts3 == RefreshAssignedUserName(ts2, userId, name)
  IN  [users |-> normalizePendingTasksForUser(us1, userId), tasks |-> ts3]

\* Mutant: the check for completed Tasks is left out.
HasCompletedNever(ts, found) == FALSE

\* tasks.some(t => t.completed)
HasCompleted(ts, found) == \E i \in 1..Len(found) : ts[found[i]].completed

PutUserHandler(us, ts, id, body) ==
  LET user == UserFindById(us, id)
      prevPending == user.pendingTasks
      req == RequestedPending(body)
      found == TaskFindIn(ts, req)
      missing == SelectSeq(req, LAMBDA t : ~InSeq(found, t))
      hasCompleted == HasCompleted(ts, found)
      saved == [us EXCEPT ![id] =
                  [exists |-> TRUE, name |-> body.name, email |-> body.email,
                   pendingTasks |-> req]]
      done == PutUserCascade(saved, ts, id, body.name, req, prevPending)
  IN  IF body.name = "" \/ body.email = <<>>
      THEN Outcome(400, "User must have a name and an email", us, ts)
      ELSE IF ~emailContainsAt(body.email)
      THEN Outcome(400, "Invalid email format", us, ts)
      ELSE IF ~user.exists
      THEN Outcome(404, "User not found", us, ts)
      ELSE IF Len(req) > 0 /\ Len(missing) > 0
      THEN Outcome(404, "One or more tasks not found", us, ts)
      ELSE IF Len(req) > 0 /\ hasCompleted
      THEN Outcome(400, "Cannot assign completed tasks as pending", us, ts)
      ELSE IF DuplicateEmail(us, id, body.email)
      THEN Outcome(400, "A user with that email already exists", us, ts)
      ELSE Outcome(200, "User updated", done.users, done.tasks)

\* ------------------------------------------------------ DELETE /users/:id
\* Mutant: the $set forgets assignedUserName.
UnassignPendingKeepsName(ts, pending) ==
  [t \in DOMAIN ts |->
     IF ts[t].exists /\ InSeq(pending, t)
     THEN [ts[t] EXCEPT !.assignedUser = 0]
     ELSE ts[t]]

\* Task.updateMany({_id: {$in: user.pendingTasks}}, {$set: unassigned})
UnassignPending(ts, pending) ==
  [t \in DOMAIN ts |->
     IF ts[t].exists /\ InSeq(pending, t)
     THEN [ts[t] EXCEPT !.assignedUser = 0, !.assignedUserName = Unassigned]
     ELSE ts[t]]

DeleteUserHandler(us, ts, id) ==
  LET user == UserFindById(us, id)
      ts1 == IF Len(user.pendingTasks) > 0
             THEN UnassignPending(ts, user.pendingTasks)
             ELSE ts
  IN  IF ~user.exists
      THEN Outcome(404, "User not found", us, ts)
      ELSE Outcome(204, "", [us EXCEPT ![id] = NoUserDoc], ts1)

\* ------------------------------------------------------------ POST /tasks
\* body.completed as sent: the boolean true, the string 'true', the boolean
\* false, or no such field.
CompletedValues == {"true", "'true'", "false", "absent"}

\* body.completed === 'true' || body.completed === true
CoerceCompleted(c) == c \in {"true", "'true'"}

\* String.prototype.toLowerCase on the names the requests carry.
ToLowerCase(s) == IF s = "Unassigned" THEN "unassigned" ELSE s

\* The Task document built by new Task({...}).
NewTaskDoc(us, body) ==
  LET assignedUserDoc == UserFindById(us, body.assignedUser)
      assignedUserName ==
        IF body.assignedUser # 0 THEN assignedUserDoc.name
        ELSE IF body.hasAssignedUserName THEN body.assignedUserName
        ELSE ""
  IN  [exists |-> TRUE, name |-> body.name,
       completed |-> CoerceCompleted(body.completed),
       assignedUser |-> body.assignedUser,
       assignedUserName |-> IF assignedUserName = "" THEN Unassigned
                            ELSE assignedUserName]

\* Mutant: the new Task is not added to its assignee's pendingTasks.
PostTaskCascadeSkips(us, task, taskId) == us

\* After newTask.save(): the assignee's pendingTasks.
PostTaskCascade(us, task, taskId) ==
  IF task.assignedUser # 0 /\ ~task.completed
  THEN normalizePendingTasksForUser(
         UserAddToSet(us, task.assignedUser, taskId), task.assignedUser)
  ELSE us

PostTaskHandler(us, ts, newId, body) ==
  LET assignedUserDoc == UserFindById(us, body.assignedUser)
      task == NewTaskDoc(us, body)
  IN  IF body.name = "" \/ ~body.hasDeadline
      THEN Outcome(400, "Task must have a name and a deadline", us, ts)
      ELSE IF body.assignedUser # 0 /\ ~assignedUserDoc.exists
      THEN Outcome(404, "Assigned user not found", us, ts)
      ELSE IF /\ body.assignedUser # 0
              /\ body.hasAssignedUserName
              /\ body.assignedUserName # assignedUserDoc.name
      THEN Outcome(400, "assignedUserName does not match user record", us, ts)
      ELSE Outcome(201, "Task created",
                   PostTaskCascade(us, task, newId), [ts EXCEPT ![newId] = task])

\* --------------------------------------------------------- PUT /tasks/:id
\* The in-memory Task document just before task.save().
UpdatedTaskDoc(us, body) ==
  [exists |-> TRUE, name |-> body.name,
   completed |-> CoerceCompleted(body.completed),
   assignedUser |-> body.assignedUser,
   assignedUserName |-> IF body.assignedUser # 0
                        THEN UserFindById(us, body.assignedUser).name
                        ELSE Unassigned]

\* Mutant: $push in place of $addToSet, and no normalizing after it.
PutTaskCascadePushes(us, task, taskId, prevAssigned) ==
  LET cur == task.assignedUser
      us1 == IF prevAssigned # 0 /\ prevAssigned # cur
             THEN normalizePendingTasksForUser(
                    UserPull(us, prevAssigned, taskId), prevAssigned)
             ELSE us
  IN  IF cur = 0 THEN us1
      ELSE IF task.completed
      THEN normalizePendingTasksForUser(UserPull(us1, cur, taskId), cur)
      ELSE UserSetPending(us1, cur, Append(UserFindById(us1, cur).pendingTasks, taskId))

\* Mutant: a completed Task is added to its assignee's pendingTasks like a
\* pending one.
PutTaskCascadeAlwaysAdds(us, task, taskId, prevAssigned) ==
  LET cur == task.assignedUser
      us1 == IF prevAssigned # 0 /\ prevAssigned # cur
             THEN normalizePendingTasksForUser(
                    UserPull(us, prevAssigned, taskId), prevAssigned)
             ELSE us
  IN  IF cur = 0 THEN us1
      ELSE normalizePendingTasksForUser(UserAddToSet(us1, cur, taskId), cur)

\* Mutant: the previous assignee keeps the Task.
PutTaskCascadeKeepsPrevious(us, task, taskId, prevAssigned) ==
  LET cur == task.assignedUser
  IN  IF cur = 0 THEN us
      ELSE normalizePendingTasksForUser(
             IF task.completed THEN UserPull(us, cur, taskId)
             ELSE UserAddToSet(us, cur, taskId), cur)

\* After task.save(): pull from the previous assignee, then pull from or add
\* to the current one.
PutTaskCascade(us, task, taskId, prevAssigned) ==
  LET cur == task.assignedUser
      us1 == IF prevAssigned # 0 /\ prevAssigned # cur
             THEN normalizePendingTasksForUser(
                    UserPull(us, prevAssigned, taskId), prevAssigned)
             ELSE us
      us2 == IF cur = 0 THEN us1
             ELSE normalizePendingTasksForUser(
                    IF task.completed THEN UserPull(us1, cur, taskId)
                    ELSE UserAddToSet(us1, cur, taskId), cur)
  IN  us2

\* Mutant: completed Tasks are updated like any other.
CannotModifyNever(stored) == FALSE

\* if (task.completed): completed Tasks are frozen.
CannotModify(stored) == stored.completed

PutTaskHandler(us, ts, id, body) ==
  LET stored == TaskFindById(ts, id)
      prevAssigned == stored.assignedUser
      assignedUserDoc == UserFindById(us, body.assignedUser)
      task == UpdatedTaskDoc(us, body)
  IN  IF body.name = "" \/ ~body.hasDeadline
      THEN Outcome(400, "Task must have a name and a deadline", us, ts)
      ELSE IF ~stored.exists
      THEN Outcome(404, "Task not found", us, ts)
      ELSE IF CannotModify(stored)
      THEN Outcome(400, "Cannot modify a completed task", us, ts)
      ELSE IF body.assignedUser # 0 /\ ~assignedUserDoc.exists
      THEN Outcome(404, "Assigned user not found", us, ts)
      ELSE IF /\ body.assignedUser # 0
              /\ body.hasAssignedUserName
              /\ ToLowerCase(body.assignedUserName) # Unassigned
              /\ body.assignedUserName # assignedUserDoc.name
      THEN Outcome(400, "assignedUserName does not match user record", us, ts)
      ELSE Outcome(200, "Task updated",
                   PutTaskCascade(us, task, id, prevAssigned),
                   [ts EXCEPT ![id] = task])

\* ------------------------------------------------------ DELETE /tasks/:id
\* Mutant: the assignee keeps the id of the deleted Task.
DeleteTaskCascadeSkips(us, task, taskId) == us

DeleteTaskCascade(us, task, taskId) ==
  IF task.assignedUser # 0
  THEN normalizePendingTasksForUser(
         UserPull(us, task.assignedUser, taskId), task.assignedUser)
  ELSE us

DeleteTaskHandler(us, ts, id) ==
  LET task == TaskFindById(ts, id)
  IN  IF ~task.exists
      THEN Outcome(404, "Task not found", us, ts)
      ELSE Outcome(204, "", DeleteTaskCascade(us, task, id),
                   [ts EXCEPT ![id] = NoTaskDoc])

\* --------------------------------------------------------------- requests
\* A request body is either well-formed (every required field present) or
\* lacks one required field; a body lacking a field is answered before the
\* store is read, so one body of each malformed shape is enough.
UserBodies ==
  {b \in [name : UserNames, email : Emails, pendingIsArray : BOOLEAN,
          pendingTasks : SeqsUpTo(TaskIds, MaxReqLen)] :
     ~b.pendingIsArray => b.pendingTasks = <<>>}
  \cup [name : {""}, email : Emails, pendingIsArray : {FALSE}, pendingTasks : {<<>>}]
  \cup [name : UserNames, email : BadEmails \cup {<<>>}, pendingIsArray : {FALSE},
        pendingTasks : {<<>>}]

\* POST /users reads of pendingTasks only whether it is non-empty.
NewUserBodies == {b \in UserBodies : Len(b.pendingTasks) <= 1}

\* assignedUserName decides only whether the request is accepted, except on
\* POST /tasks without assignedUser, where it is stored; it is sent with
\* completed absent.
TaskBodies ==
  [name : TaskNames, hasDeadline : {TRUE}, completed : {"true", "'true'", "false"},
   assignedUser : 0..MaxUsers, hasAssignedUserName : {FALSE}, assignedUserName : {""}]
  \cup [name : TaskNames, hasDeadline : {TRUE}, completed : {"absent"},
        assignedUser : 0..MaxUsers, hasAssignedUserName : {TRUE},
        assignedUserName : UserNames \cup {"Unassigned"}]
  \cup [name : {""}, hasDeadline : {TRUE}, completed : {"absent"}, assignedUser : {0},
        hasAssignedUserName : {FALSE}, assignedUserName : {""}]
  \cup [name : TaskNames, hasDeadline : {FALSE}, completed : {"absent"},
        assignedUser : {0}, hasAssignedUserName : {FALSE}, assignedUserName : {""}]

Succeeded(out) == out.status \in {200, 201, 204}

\* The last request that was answered with success: the route, the id of
\* the record it created, updated or deleted, and what it read before its
\* first write: prevAssigned of PUT and DELETE /tasks/:id, prevPending of
\* PUT and DELETE /users/:id, and the Tasks PUT /users/:id found with
\* another owner.  A rejected request leaves it as it is.
Served(op, id, prevAssigned, prevPending, taken) ==
  [op |-> op, id |-> id, prevAssigned |-> prevAssigned,
   prevPending |-> prevPending, taken |-> taken]

\* The Tasks of req that the loop of PUT /users/:id pulls from another owner.
TakenFromOthers(ts, req, userId) ==
  {t \in TaskIds : /\ InSeq(req, t) /\ ts[t].exists /\ ~ts[t].completed
                   /\ ts[t].assignedUser \notin {0, userId}}

\* No read request has been answered.
NoReply ==
  [request |-> "none", id |-> 0,
   response |-> [route |-> "None", status |-> 0, message |-> "", query |-> "none"]]

Init ==
  /\ users = [u \in UserIds |-> NoUserDoc]
  /\ tasks = [t \in TaskIds |-> NoTaskDoc]
  /\ nextUserId = 1
  /\ nextTaskId = 1
  /\ last = Served("None", 0, 0, <<>>, {})
  /\ reply = NoReply
  /\ calls = <<>>
  /\ procs = <<>>

PostUser(body) ==
  LET out == PostUserHandler(users, tasks, nextUserId, body)
  IN  /\ nextUserId <= MaxUsers
      /\ users' = out.users
      /\ tasks' = out.tasks
      /\ nextUserId' = IF Succeeded(out) THEN nextUserId + 1 ELSE nextUserId
      /\ last' = IF Succeeded(out) THEN Served("PostUser", nextUserId, 0, <<>>, {})
                 ELSE last
      /\ UNCHANGED nextTaskId
      /\ UNCHANGED aux

PutUser(id, body) ==
  LET out == PutUserHandler(users, tasks, id, body)
  IN  /\ users' = out.users
      /\ tasks' = out.tasks
      /\ last' = IF Succeeded(out)
                 THEN Served("PutUser", id, 0, users[id].pendingTasks,
                             TakenFromOthers(tasks, RequestedPending(body), id))
                 ELSE last
      /\ UNCHANGED <<nextUserId, nextTaskId>>
      /\ UNCHANGED aux

DeleteUser(id) ==
  LET out == DeleteUserHandler(users, tasks, id)
  IN  /\ users' = out.users
      /\ tasks' = out.tasks
      /\ last' = IF Succeeded(out)
                 THEN Served("DeleteUser", id, 0, users[id].pendingTasks, {})
                 ELSE last
      /\ UNCHANGED <<nextUserId, nextTaskId>>
      /\ UNCHANGED aux

PostTask(body) ==
  LET out == PostTaskHandler(users, tasks, nextTaskId, body)
  IN  /\ nextTaskId <= MaxTasks
      /\ users' = out.users
      /\ tasks' = out.tasks
      /\ nextTaskId' = IF Succeeded(out) THEN nextTaskId + 1 ELSE nextTaskId
      /\ last' = IF Succeeded(out) THEN Served("PostTask", nextTaskId, 0, <<>>, {})
                 ELSE last
      /\ UNCHANGED nextUserId
      /\ UNCHANGED aux

PutTask(id, body) ==
  LET out == PutTaskHandler(users, tasks, id, body)
  IN  /\ users' = out.users
      /\ tasks' = out.tasks
      /\ last' = IF Succeeded(out)
                 THEN Served("PutTask", id, tasks[id].assignedUser, <<>>, {})
                 ELSE last
      /\ UNCHANGED <<nextUserId, nextTaskId>>
      /\ UNCHANGED aux

DeleteTask(id) ==
  LET out == DeleteTaskHandler(users, tasks, id)
  IN  /\ users' = out.users
      /\ tasks' = out.tasks
      /\ last' = IF Succeeded(out)
                 THEN Served("DeleteTask", id, tasks[id].assignedUser, <<>>, {})
                 ELSE last
      /\ UNCHANGED <<nextUserId, nextTaskId>>
      /\ UNCHANGED aux

Next ==
  \/ \E body \in NewUserBodies : PostUser(body)
  \/ \E id \in UserIds, body \in UserBodies : PutUser(id, body)
  \/ \E id \in UserIds : DeleteUser(id)
  \/ \E body \in TaskBodies : PostTask(body)
  \/ \E id \in TaskIds, body \in TaskBodies : PutTask(id, body)
  \/ \E id \in TaskIds : DeleteTask(id)

Spec == Init /\ [][Next]_vars

\* ----------------------------------------------------------------- claims
StoredTasks == {t \in TaskIds : tasks[t].exists}

StoredUsers == {u \in UserIds : users[u].exists}

Pending(t) == tasks[t].exists /\ ~tasks[t].completed /\ tasks[t].assignedUser # 0

\* C1: between requests, every Task that is not completed and is assigned to
\* a User u has its id exactly once in u's pendingTasks, and every Task that
\* is completed or unassigned has its id in no User's pendingTasks.
C1_PendingMatchesAssignment ==
  \A t \in StoredTasks :
    IF Pending(t)
    THEN /\ tasks[t].assignedUser \in StoredUsers
         /\ Count(users[tasks[t].assignedUser].pendingTasks, t) = 1
    ELSE \A u \in StoredUsers : ~InSeq(users[u].pendingTasks, t)

\* A pending Task in its assignee's list beside a completed Task that is still
\* assigned and in no list, after a Task was updated.
C1_Witness ==
  /\ last.op = "PutTask"
  /\ \E t \in StoredTasks : Pending(t) /\ InSeq(users[tasks[t].assignedUser].pendingTasks, t)
  /\ \E t \in StoredTasks :
       /\ tasks[t].completed /\ tasks[t].assignedUser \in StoredUsers
       /\ \A u \in StoredUsers : ~InSeq(users[u].pendingTasks, t)

\* C2: between requests, every stored Task has assignedUserName "unassigned"
\* when assignedUser is empty, and otherwise assignedUser is a stored User and
\* assignedUserName is that User's current name.
C2_AssignedUserNameCurrent ==
  \A t \in StoredTasks :
    IF tasks[t].assignedUser = 0
    THEN tasks[t].assignedUserName = Unassigned
    ELSE /\ tasks[t].assignedUser \in StoredUsers
         /\ tasks[t].assignedUserName = users[tasks[t].assignedUser].name

\* C6: between requests, every non-empty assignedUser of a stored Task,
\* completed or not, is the id of a stored User; in particular no Task refers
\* to a User that DELETE /users/:id has removed.
C6_NoDanglingAssignedUser ==
  \A t \in StoredTasks :
    tasks[t].assignedUser # 0 => tasks[t].assignedUser \in StoredUsers

\* C3: a successful PUT /tasks/:id that moves a non-completed Task from its
\* assignee U1 to another stored User U2, completed not true, ends with the id
\* absent from U1's pendingTasks and exactly once in U2's, and with the Task's
\* assignedUser = U2 and assignedUserName = U2's name.
C3_Reassignment ==
  \A t \in StoredTasks, body \in TaskBodies :
    LET out == PutTaskHandler(users, tasks, t, body)
        U1 == tasks[t].assignedUser
        U2 == body.assignedUser
    IN  (/\ ~tasks[t].completed /\ U1 \in StoredUsers /\ U2 \in StoredUsers /\ U2 # U1
         /\ ~CoerceCompleted(body.completed) /\ Succeeded(out))
        => /\ ~InSeq(out.users[U1].pendingTasks, t)
           /\ Count(out.users[U2].pendingTasks, t) = 1
           /\ out.tasks[t].assignedUser = U2
           /\ out.tasks[t].assignedUserName = out.users[U2].name

\* A Task was moved by PUT /tasks/:id from one stored User to another.
C3_Witness ==
  /\ last.op = "PutTask"
  /\ Pending(last.id)
  /\ last.prevAssigned \in StoredUsers \ {tasks[last.id].assignedUser}
  /\ ~InSeq(users[last.prevAssigned].pendingTasks, last.id)
  /\ InSeq(users[tasks[last.id].assignedUser].pendingTasks, last.id)

\* C4: POST /tasks with assignedUser = U, a stored User, and completed false
\* puts the new id into U's pendingTasks; a PUT /tasks/:id on that Task that
\* keeps assignedUser = U and sets completed = true then leaves U's
\* pendingTasks as it was before the POST.
C4_CreateThenComplete ==
  \A body \in TaskBodies :
    LET U == body.assignedUser
        id == nextTaskId
        created == PostTaskHandler(users, tasks, id, body)
    IN  (/\ id <= MaxTasks /\ U \in StoredUsers
         /\ ~CoerceCompleted(body.completed) /\ Succeeded(created))
        => /\ InSeq(created.users[U].pendingTasks, id)
           /\ \A put \in TaskBodies :
                LET done == PutTaskHandler(created.users, created.tasks, id, put)
                IN  (/\ put.assignedUser = U /\ CoerceCompleted(put.completed)
                     /\ Succeeded(done))
                    => done.users[U].pendingTasks = users[U].pendingTasks

\* The Task created last was completed by a PUT that kept its assignee, and
\* is in the assignee's pendingTasks no more.
C4_Witness ==
  /\ last.op = "PutTask"
  /\ last.id = nextTaskId - 1
  /\ tasks[last.id].exists /\ tasks[last.id].completed
  /\ last.prevAssigned \in StoredUsers
  /\ tasks[last.id].assignedUser = last.prevAssigned
  /\ ~InSeq(users[last.prevAssigned].pendingTasks, last.id)

\* C5: a successful DELETE /users/:id leaves every Task whose id was in the
\* User's pendingTasks unassigned (assignedUser empty, assignedUserName
\* "unassigned"); a successful DELETE /tasks/:id on an assigned Task leaves the
\* assignee's pendingTasks without the id and otherwise as it was.
C5_DeletionCascade ==
  /\ \A u \in StoredUsers :
       LET out == DeleteUserHandler(users, tasks, u)
       IN  /\ Succeeded(out)
           /\ \A t \in StoredTasks :
                InSeq(users[u].pendingTasks, t)
                => /\ out.tasks[t].exists
                   /\ out.tasks[t].assignedUser = 0
                   /\ out.tasks[t].assignedUserName = Unassigned
  /\ \A t \in StoredTasks :
       LET out == DeleteTaskHandler(users, tasks, t)
           a == tasks[t].assignedUser
       IN  /\ Succeeded(out)
           /\ a \in StoredUsers
              => /\ ~InSeq(out.users[a].pendingTasks, t)
                 /\ out.users[a].pendingTasks
                      = SelectSeq(users[a].pendingTasks, LAMBDA x : x # t)

\* A User with two pending Tasks was deleted and both Tasks are unassigned.
C5_Witness ==
  /\ last.op = "DeleteUser"
  /\ ~users[last.id].exists
  /\ Len(last.prevPending) = 2
  /\ \A i \in 1..Len(last.prevPending) :
       /\ tasks[last.prevPending[i]].exists
       /\ tasks[last.prevPending[i]].assignedUser = 0
       /\ tasks[last.prevPending[i]].assignedUserName = Unassigned

\* An assigned Task was deleted and its assignee keeps another pending Task.
C5_WitnessDeleteTask ==
  /\ last.op = "DeleteTask"
  /\ ~tasks[last.id].exists
  /\ last.prevAssigned \in StoredUsers
  /\ users[last.prevAssigned].pendingTasks # <<>>
  /\ ~InSeq(users[last.prevAssigned].pendingTasks, last.id)

WellFormedUserBody(body) ==
  body.name # "" /\ body.email # <<>> /\ emailContainsAt(body.email)

\* The request's pendingTasks names a stored Task that is completed.
ListsCompleted(body) ==
  \E i \in 1..Len(RequestedPending(body)) :
    /\ RequestedPending(body)[i] \in StoredTasks
    /\ tasks[RequestedPending(body)[i]].completed

\* The request's pendingTasks names an id of no stored Task.
ListsMissing(body) ==
  \E i \in 1..Len(RequestedPending(body)) : RequestedPending(body)[i] \notin StoredTasks

\* C7 as claimed: a PUT /users/:id on a stored User whose pendingTasks names a
\* completed Task is answered 400 and alters no User and no Task.
C7_RejectedWith400 ==
  \A u \in StoredUsers, body \in UserBodies :
    LET out == PutUserHandler(users, tasks, u, body)
    IN  ListsCompleted(body)
        => out.status = 400 /\ out.users = users /\ out.tasks = tasks

\* C7 as amended: a PUT /users/:id whose pendingTasks names a completed Task
\* alters no User and no Task and is answered 400, or 404 when the body is
\* well-formed and the User is not stored or the list also names an id of no
\* stored Task.
C7_RejectedUnaltered ==
  \A u \in UserIds, body \in UserBodies :
    LET out == PutUserHandler(users, tasks, u, body)
    IN  ListsCompleted(body)
        => /\ out.users = users /\ out.tasks = tasks
           /\ out.status =
                IF WellFormedUserBody(body) /\ (u \notin StoredUsers \/ ListsMissing(body))
                THEN 404 ELSE 400

\* A stored User, a completed Task and a well-formed request naming it that is
\* answered "Cannot assign completed tasks as pending", while a User holds a
\* pending Task that the request would have taken.
C7_Witness ==
  \E u \in StoredUsers, body \in UserBodies :
    /\ ListsCompleted(body)
    /\ PutUserHandler(users, tasks, u, body).message
         = "Cannot assign completed tasks as pending"
    /\ body.name # users[u].name
    /\ \E t \in StoredTasks : Pending(t) /\ InSeq(RequestedPending(body), t)

\* C8: a PUT /tasks/:id on a Task stored with completed = true is answered 400
\* whatever the body and alters no Task and no User; hence no PUT /tasks/:id
\* changes a completed Task.
C8_CompletedFrozen ==
  \A t \in TaskIds, body \in TaskBodies :
    LET out == PutTaskHandler(users, tasks, t, body)
    IN  /\ (t \in StoredTasks /\ tasks[t].completed)
           => out.status = 400 /\ out.users = users /\ out.tasks = tasks
        /\ \A c \in StoredTasks : tasks[c].completed => out.tasks[c] = tasks[c]

\* A completed Task, assigned, and a well-formed request to reopen and unassign
\* it that is answered "Cannot modify a completed task".
C8_Witness ==
  \E t \in StoredTasks, body \in TaskBodies :
    /\ tasks[t].completed /\ tasks[t].assignedUser \in StoredUsers
    /\ body.name # "" /\ body.hasDeadline
    /\ ~CoerceCompleted(body.completed) /\ body.assignedUser = 0
    /\ PutTaskHandler(users, tasks, t, body).message = "Cannot modify a completed task"

SeqToSet(s) == {s[i] : i \in 1..Len(s)}

\* C9: after a successful PUT /users/:id on User u asking for the id set S,
\* u's pendingTasks holds exactly the ids of S, each once; every Task of S has
\* assignedUser = u and assignedUserName = the name sent; and every
\* non-completed Task of u's previous pendingTasks that is not in S is
\* unassigned, with assignedUserName "unassigned".
C9_FullReplace ==
  \A u \in UserIds, body \in UserBodies :
    LET out == PutUserHandler(users, tasks, u, body)
        S == SeqToSet(RequestedPending(body))
    IN  Succeeded(out)
        => /\ SeqToSet(out.users[u].pendingTasks) = S
           /\ Len(out.users[u].pendingTasks) = Cardinality(S)
           /\ out.users[u].name = body.name
           /\ \A t \in S : /\ out.tasks[t].exists /\ ~out.tasks[t].completed
                           /\ out.tasks[t].assignedUser = u
                           /\ out.tasks[t].assignedUserName = body.name
           /\ \A t \in SeqToSet(users[u].pendingTasks) \ S :
                (t \in StoredTasks /\ ~tasks[t].completed)
                => /\ out.tasks[t].assignedUser = 0
                   /\ out.tasks[t].assignedUserName = Unassigned

\* A PUT /users/:id replaced a pending set: the User holds a Task it did not
\* hold before, and a Task it held before is unassigned.
C9_Witness ==
  /\ last.op = "PutUser"
  /\ \E t \in StoredTasks :
       /\ InSeq(users[last.id].pendingTasks, t) /\ ~InSeq(last.prevPending, t)
       /\ tasks[t].assignedUser = last.id
  /\ \E t \in StoredTasks :
       /\ InSeq(last.prevPending, t) /\ ~InSeq(users[last.id].pendingTasks, t)
       /\ tasks[t].assignedUser = 0 /\ tasks[t].assignedUserName = Unassigned

\* C10: when a successful PUT /users/:id on User u lists a non-completed Task
\* t assigned to another User v, then afterwards t is not in v's
\* pendingTasks, v's entries that the request did not list are as they were,
\* and t is in the pendingTasks of u and of no other User.
C10_TakeOver ==
  \A u \in UserIds, body \in UserBodies :
    LET out == PutUserHandler(users, tasks, u, body)
        req == RequestedPending(body)
    IN  Succeeded(out)
        => \A t \in TakenFromOthers(tasks, req, u) :
             LET v == tasks[t].assignedUser
             IN  /\ v \in StoredUsers
                 /\ ~InSeq(out.users[v].pendingTasks, t)
                 /\ out.users[v].pendingTasks
                      = SelectSeq(users[v].pendingTasks, LAMBDA x : ~InSeq(req, x))
                 /\ {w \in UserIds : /\ out.users[w].exists
                                     /\ InSeq(out.users[w].pendingTasks, t)} = {u}

\* A PUT /users/:id took a Task from another User, who keeps another one.
C10_Witness ==
  /\ last.op = "PutUser"
  /\ \E t \in last.taken :
       /\ InSeq(users[last.id].pendingTasks, t)
       /\ \E v \in StoredUsers \ {last.id} :
            /\ ~InSeq(users[v].pendingTasks, t)
            /\ users[v].pendingTasks # <<>>

\* C11 as claimed: the Task that POST /tasks stores has assignedUserName
\* "unassigned" when no assignedUser was given, and otherwise the name of the
\* stored User given as assignedUser; a name the caller sent is stored in no
\* other case.
C11_NoForgedAssignedUserName ==
  (last.op = "PostTask")
  => IF tasks[last.id].assignedUser = 0
     THEN tasks[last.id].assignedUserName = Unassigned
     ELSE /\ tasks[last.id].assignedUser \in StoredUsers
          /\ tasks[last.id].assignedUserName = users[tasks[last.id].assignedUser].name

NoDuplicates(s) == \A i, j \in 1..Len(s) : i # j => s[i] # s[j]

\* C12: between requests, no stored User's pendingTasks holds an id twice.
C12_NoDuplicatePending ==
  \A u \in StoredUsers : NoDuplicates(users[u].pendingTasks)

\* A PUT /users/:id left a User with two pending Tasks, and the same User
\* accepts a request whose list repeats an id.
C12_Witness ==
  /\ last.op = "PutUser"
  /\ Len(users[last.id].pendingTasks) = 2
  /\ \E body \in UserBodies :
       /\ ~NoDuplicates(body.pendingTasks)
       /\ Succeeded(PutUserHandler(users, tasks, last.id, body))

\* C19: between requests, every id in a stored User u's pendingTasks is the
\* id of a stored Task that is not completed and has assignedUser = u; hence
\* no id is in the pendingTasks of two Users, and none refers to a deleted
\* Task.
C19_PendingEntriesOwned ==
  \A u \in StoredUsers :
    \A i \in 1..Len(users[u].pendingTasks) :
      LET t == users[u].pendingTasks[i]
      IN  /\ t \in StoredTasks
          /\ ~tasks[t].completed
          /\ tasks[t].assignedUser = u

\* A Task was deleted while its assignee holds another pending Task, and a
\* second User is stored.
C19_Witness ==
  /\ last.op = "DeleteTask"
  /\ last.id \notin StoredTasks
  /\ last.prevAssigned \in StoredUsers
  /\ users[last.prevAssigned].pendingTasks # <<>>
  /\ Cardinality(StoredUsers) = 2

\* C20: a stored Task that is completed is, in every later state in which it
\* is still stored, completed and assigned as before: no request reopens,
\* reassigns or unassigns it.
C20_CompletionPermanent ==
  [][\A t \in TaskIds :
       (tasks[t].exists /\ tasks[t].completed /\ tasks'[t].exists)
       => /\ tasks'[t].completed
          /\ tasks'[t].assignedUser = tasks[t].assignedUser]_vars

\* The assignee of a completed Task was deleted and the Task is still
\* completed and still names it.
C20_Witness ==
  /\ last.op = "DeleteUser"
  /\ \E t \in StoredTasks : tasks[t].completed /\ tasks[t].assignedUser = last.id

\* ------------------------------------------------------- query parameters
\* A query-string value is absent or a text; a text is a sequence of JSON
\* tokens: braces, commas, the literal null, or a member "key":value.
MemberTokens == {"\"name\":\"a\"", "\"__parseError\":true", "\"__parseError\":false"}

MemberKey(tok) == IF tok = "\"name\":\"a\"" THEN "name" ELSE "__parseError"

MemberValue(tok) ==
  IF tok = "\"name\":\"a\"" THEN "a"
  ELSE IF tok = "\"__parseError\":true" THEN "true" ELSE "false"

\* The text is a JSON object: { member, member, ... }.
IsObjectText(text) ==
  /\ Len(text) >= 2
  /\ text[1] = "{" /\ text[Len(text)] = "}"
  /\ \/ Len(text) = 2
     \/ /\ Len(text) % 2 = 1
        /\ \A i \in 2..(Len(text) - 1) :
             IF i % 2 = 0 THEN text[i] \in MemberTokens ELSE text[i] = ","

\* JSON.parse does not throw on this text.
JSONParses(text) == text = <<"null">> \/ IsObjectText(text)

Undefined == [kind |-> "undefined", fields |-> <<>>]

\* JSON.parse(text) of a text that parses; of a repeated key the last value.
JSONParse(text) ==
  IF text = <<"null">> THEN [kind |-> "null", fields |-> <<>>]
  ELSE LET at == {i \in 2..(Len(text) - 1) : text[i] \in MemberTokens}
           keys == {MemberKey(text[i]) : i \in at}
           lastOf(k) == CHOOSE i \in at :
                          /\ MemberKey(text[i]) = k
                          /\ \A j \in at : MemberKey(text[j]) = k => j <= i
       IN  [kind |-> "object",
            fields |-> [k \in keys |-> MemberValue(text[lastOf(k)])]]

\* { __parseError: true }
ParseErrorMarker ==
  [kind |-> "object", fields |-> [k \in {"__parseError"} |-> "true"]]

parseJSONParam(param) ==
  IF ~param.present \/ param.text = <<>> THEN Undefined
  ELSE IF JSONParses(param.text) THEN JSONParse(param.text)
  ELSE ParseErrorMarker

\* value?.__parseError is truthy
HasParseError(value) ==
  /\ value.kind = "object"
  /\ "__parseError" \in DOMAIN value.fields
  /\ value.fields["__parseError"] = "true"

\* value || {}: undefined and null give the empty filter.
OrEmptyObject(value) ==
  IF value.kind \in {"undefined", "null"}
  THEN [kind |-> "object", fields |-> <<>>]
  ELSE value

\* parseInt of skip and limit: a number, or NaN for a text with no digits.
NumberTexts == {"5", "x"}

ParseInt(text) == IF text = "5" THEN [nan |-> FALSE, n |-> 5] ELSE [nan |-> TRUE, n |-> 0]

\* req.query.skip ? parseInt(req.query.skip) : undefined, and !isNaN(skip):
\* isNaN(undefined) is true as well.
Pagination(param) ==
  IF ~param.present \/ param.text = "" THEN [applied |-> FALSE, n |-> 0]
  ELSE [applied |-> ~ParseInt(param.text).nan, n |-> ParseInt(param.text).n]

\* The answer to a read request: the status and message sent, and the query
\* that was run (filter, projection, sort, skip, limit, count) if one was.
Reply(route, status, message, query) ==
  [route |-> route, status |-> status, message |-> message, query |-> query]

NoQuery ==
  [where |-> Undefined, select |-> Undefined, sort |-> Undefined,
   skip |-> [applied |-> FALSE, n |-> 0], limit |-> [applied |-> FALSE, n |-> 0],
   count |-> FALSE, found |-> FALSE]

\* GET /users and GET /tasks
ListHandler(route, q) ==
  LET where == parseJSONParam(q.where)
      sort == parseJSONParam(q.sort)
      select == parseJSONParam(q.select)
  IN  IF HasParseError(where)
      THEN Reply(route, 400, "Invalid JSON in where parameter", NoQuery)
      ELSE IF HasParseError(sort)
      THEN Reply(route, 400, "Invalid JSON in sort parameter", NoQuery)
      ELSE IF HasParseError(select)
      THEN Reply(route, 400, "Invalid JSON in select parameter", NoQuery)
      ELSE Reply(route, 200, "OK",
                 [where |-> OrEmptyObject(where),
                  select |-> IF select.kind = "object" THEN select ELSE Undefined,
                  sort |-> IF sort.kind = "object" THEN sort ELSE Undefined,
                  skip |-> Pagination(q.skip), limit |-> Pagination(q.limit),
                  count |-> q.count, found |-> TRUE])

\* GET /users/:id and GET /tasks/:id
GetHandler(route, stored, q) ==
  LET select == parseJSONParam(q.select)
  IN  IF HasParseError(select)
      THEN Reply(route, 400, "Invalid JSON in select parameter", NoQuery)
      ELSE IF ~stored
      THEN Reply(route, 404,
                 IF route = "GetUser" THEN "User not found" ELSE "Task not found",
                 [NoQuery EXCEPT !.select =
                    IF select.kind = "object" THEN select ELSE Undefined])
      ELSE Reply(route, 200, "OK",
                 [NoQuery EXCEPT !.select =
                    IF select.kind = "object" THEN select ELSE Undefined,
                  !.found = TRUE])

Absent == [present |-> FALSE, text |-> <<>>]

\* The values of where, sort and select: absent, empty, and texts that parse
\* (null, objects with and without a member __parseError) or do not.
JSONTexts ==
  {<<>>, <<"null">>, <<"{", "}">>, <<"{", "\"name\":\"a\"", "}">>,
   <<"{", "\"__parseError\":true", "}">>, <<"{", "\"__parseError\":false", "}">>,
   <<"{", "\"name\":\"a\"">>}

JSONParams == {Absent} \cup [present : {TRUE}, text : JSONTexts]

NumberParams == {[present |-> FALSE, text |-> ""]} \cup [present : {TRUE}, text : NumberTexts]

\* req.query: the three JSON parameters in every combination, and skip, limit
\* and count, which no JSON parameter depends on, beside absent ones.
ListQueries ==
  [where : JSONParams, sort : JSONParams, select : JSONParams,
   skip : {[present |-> FALSE, text |-> ""]}, limit : {[present |-> FALSE, text |-> ""]},
   count : {FALSE}]
  \cup [where : {Absent}, sort : {Absent}, select : {Absent},
        skip : NumberParams, limit : NumberParams, count : BOOLEAN]

GetQueries ==
  [where : {Absent}, sort : {Absent}, select : JSONParams,
   skip : {[present |-> FALSE, text |-> ""]}, limit : {[present |-> FALSE, text |-> ""]},
   count : {FALSE}]

\* A store that the write routes reach: User 1 and Task 1, unassigned.
InitQuery ==
  /\ users = [u \in UserIds |->
                IF u = 1 THEN [exists |-> TRUE, name |-> "alice",
                               email |-> <<"a", "@", "x">>, pendingTasks |-> <<>>]
                ELSE NoUserDoc]
  /\ tasks = [t \in TaskIds |->
                IF t = 1 THEN [exists |-> TRUE, name |-> "A", completed |-> FALSE,
                               assignedUser |-> 0, assignedUserName |-> Unassigned]
                ELSE NoTaskDoc]
  /\ nextUserId = 2
  /\ nextTaskId = 2
  /\ last = Served("None", 0, 0, <<>>, {})
  /\ reply = NoReply
  /\ calls = <<>>
  /\ procs = <<>>

Answer(q, id, response) ==
  /\ reply' = [request |-> q, response |-> response, id |-> id]
  /\ UNCHANGED <<users, tasks, nextUserId, nextTaskId, last, calls, procs>>

GetUsers(q) == Answer(q, 0, ListHandler("GetUsers", q))

GetUser(id, q) == Answer(q, id, GetHandler("GetUser", UserFindById(users, id).exists, q))

GetTasks(q) == Answer(q, 0, ListHandler("GetTasks", q))

GetTask(id, q) == Answer(q, id, GetHandler("GetTask", TaskFindById(tasks, id).exists, q))

NextQuery ==
  \/ \E q \in ListQueries : GetUsers(q)
  \/ \E id \in UserIds, q \in GetQueries : GetUser(id, q)
  \/ \E q \in ListQueries : GetTasks(q)
  \/ \E id \in TaskIds, q \in GetQueries : GetTask(id, q)

SpecQuery == InitQuery /\ [][NextQuery]_vars

IsListRoute(route) == route \in {"GetUsers", "GetTasks"}

\* The parameter was sent with a text that is not empty.
Sent(param) == param.present /\ param.text # <<>>

\* The first of where, sort, select (of select alone on a get request) whose
\* text was sent and does not parse; "none" if there is none.
FirstUndecodable(route, q) ==
  IF IsListRoute(route) /\ Sent(q.where) /\ ~JSONParses(q.where.text) THEN "where"
  ELSE IF IsListRoute(route) /\ Sent(q.sort) /\ ~JSONParses(q.sort.text) THEN "sort"
  ELSE IF Sent(q.select) /\ ~JSONParses(q.select.text) THEN "select"
  ELSE "none"

InvalidJSONMessage(name) ==
  IF name = "where" THEN "Invalid JSON in where parameter"
  ELSE IF name = "sort" THEN "Invalid JSON in sort parameter"
  ELSE "Invalid JSON in select parameter"

\* C16 as claimed: a list or get request is answered 400 "Invalid JSON in
\* <name> parameter" exactly when the text sent for a parameter does not
\* decode, an absent parameter puts no constraint on the query, a text that
\* decodes is used as decoded, and no decoded value equals the parse-error
\* marker.
C16_InvalidJSONExactly ==
  (reply.response.route # "None")
  => LET q == reply.request
         r == reply.response
         name == FirstUndecodable(r.route, q)
     IN  /\ (r.status = 400) <=> (name # "none")
         /\ r.status = 400 => r.message = InvalidJSONMessage(name)
         /\ \A p \in {q.where, q.sort, q.select} :
              (Sent(p) /\ JSONParses(p.text)) => parseJSONParam(p) # ParseErrorMarker
         /\ (r.status = 200 /\ IsListRoute(r.route))
            => /\ ~Sent(q.where) => r.query.where = [kind |-> "object", fields |-> <<>>]
               /\ (Sent(q.where) /\ JSONParse(q.where.text).kind = "object")
                  => r.query.where = JSONParse(q.where.text)

\* ------------------------------------------- normalizePendingTasksForUser
MaxListLen == 3
MaxNormRuns == 3

\* User 1 is missing or holds any list of Task ids, duplicates included: the
\* lists the function is there to repair.  No other User is stored.
InitNorm ==
  /\ users \in {[u \in UserIds |-> IF u = 1 THEN d ELSE NoUserDoc] :
                  d \in {NoUserDoc} \cup
                        {[exists |-> TRUE, name |-> "alice", email |-> <<"a", "@", "x">>,
                          pendingTasks |-> p] : p \in SeqsUpTo(TaskIds, MaxListLen)}}
  /\ tasks = [t \in TaskIds |-> NoTaskDoc]
  /\ nextUserId = 2
  /\ nextTaskId = 1
  /\ last = Served("None", 0, 0, <<>>, {})
  /\ reply = NoReply
  /\ calls = <<>>
  /\ procs = <<>>

\* One run of normalizePendingTasksForUser(userId), logged with the list it
\* read, the writes it issued and the list it left.
Normalize(userId) ==
  /\ Len(calls) < MaxNormRuns
  /\ users' = normalizePendingTasksForUser(users, userId)
  /\ calls' = Append(calls,
                [userId |-> userId,
                 existed |-> UserFindById(users, userId).exists,
                 before |-> UserFindById(users, userId).pendingTasks,
                 writes |-> NormalizeWrites(users, userId),
                 after |-> UserFindById(users', userId).pendingTasks])
  /\ UNCHANGED <<tasks, nextUserId, nextTaskId, last, reply, procs>>

NextNorm == \E userId \in UserIds : Normalize(userId)

SpecNorm == InitNorm /\ [][NextNorm]_vars

\* Index of the first occurrence of x in s.
FirstIndex(s, x) == CHOOSE i \in 1..Len(s) : s[i] = x /\ \A j \in 1..(i - 1) : s[j] # x

\* n is s without its repeated entries, each kept at its first occurrence.
IsFirstOccurrenceForm(s, n) ==
  /\ NoDuplicates(n)
  /\ {n[i] : i \in 1..Len(n)} = {s[i] : i \in 1..Len(s)}
  /\ \A i, j \in 1..Len(n) : i < j => FirstIndex(s, n[i]) < FirstIndex(s, n[j])

\* C18: normalizePendingTasksForUser writes nothing on a missing User; on a
\* stored User it writes exactly when the stored list is not its own
\* de-duplicated first-occurrence form, and then stores that form; so a list
\* without duplicates is not written, and a second run right after a first
\* writes nothing and changes nothing.
C18_NormalizeWritesOnlyWhenNeeded ==
  \A k \in 1..Len(calls) :
    LET c == calls[k]
    IN  /\ ~c.existed => c.writes = <<>> /\ c.after = c.before
        /\ c.existed
           => /\ (c.writes # <<>>) <=> ~IsFirstOccurrenceForm(c.before, c.before)
              /\ c.writes # <<>>
                 => /\ Len(c.writes) = 1
                    /\ c.writes[1].user = c.userId
                    /\ c.writes[1].pendingTasks = c.after
              /\ IsFirstOccurrenceForm(c.before, c.after)
              /\ NoDuplicates(c.before) => c.writes = <<>> /\ c.after = c.before
        /\ (k > 1 /\ calls[k - 1].userId = c.userId)
           => c.writes = <<>> /\ c.after = c.before

C18_Witness ==
  /\ Len(calls) = 2
  /\ calls[1].userId = calls[2].userId
  /\ calls[1].existed
  /\ calls[1].writes # <<>>
  /\ Len(calls[1].after) = 2
  /\ calls[1].before[1] = calls[1].before[3]

\* ------------------------------------------ requests, store call by store call
\* A handler runs from one await to the next; every await is one store call,
\* a read or a single write, and the store serves one call at a time.  A
\* request in flight is its route, its arguments, the store call it is about
\* to make (pc), its local variables, and the writes it has made so far.
NoWrite ==
  [op |-> "none", id |-> 0, tid |-> 0, ids |-> <<>>, name |-> "",
   udoc |-> NoUserDoc, tdoc |-> NoTaskDoc, paths |-> {}]

IsWrite(w) == w.op # "none"

\* doc.save() of a loaded document sends the paths whose value was changed.
ModifiedPaths(loaded, doc, paths) == {f \in paths : doc[f] # loaded[f]}

SetPaths(stored, doc, paths) ==
  [f \in DOMAIN stored |-> IF f \in paths THEN doc[f] ELSE stored[f]]

\* The store after one write call.
ApplyWrite(w, us, ts) ==
  CASE w.op = "User.insert" ->
         [users |-> [us EXCEPT ![w.id] = w.udoc], tasks |-> ts]
    [] w.op = "User.save" ->
         [users |-> IF UserFindById(us, w.id).exists
                    THEN [us EXCEPT ![w.id] = SetPaths(@, w.udoc, w.paths)]
                    ELSE us,
          tasks |-> ts]
    [] w.op = "User.pull" -> [users |-> UserPull(us, w.id, w.tid), tasks |-> ts]
    [] w.op = "User.addToSet" -> [users |-> UserAddToSet(us, w.id, w.tid), tasks |-> ts]
    [] w.op = "User.setPending" -> [users |-> UserSetPending(us, w.id, w.ids), tasks |-> ts]
    [] w.op = "User.deleteOne" ->
         [users |-> IF w.id \in DOMAIN us THEN [us EXCEPT ![w.id] = NoUserDoc] ELSE us,
          tasks |-> ts]
    [] w.op = "Task.insert" ->
         [users |-> us, tasks |-> [ts EXCEPT ![w.id] = w.tdoc]]
    [] w.op = "Task.save" ->
         [users |-> us,
          tasks |-> IF TaskFindById(ts, w.id).exists
                    THEN [ts EXCEPT ![w.id] = SetPaths(@, w.tdoc, w.paths)]
                    ELSE ts]
    [] w.op = "Task.assign" ->
         [users |-> us, tasks |-> AssignTasks(ts, w.ids, w.id, w.name)]
    [] w.op = "Task.unassignRemoved" ->
         [users |-> us, tasks |-> UnassignRemoved(ts, w.ids)]
    [] w.op = "Task.unassignPending" ->
         [users |-> us, tasks |-> UnassignPending(ts, w.ids)]
    [] w.op = "Task.refreshName" ->
         [users |-> us, tasks |-> RefreshAssignedUserName(ts, w.id, w.name)]
    [] w.op = "Task.deleteOne" ->
         [users |-> us,
          tasks |-> IF w.id \in DOMAIN ts THEN [ts EXCEPT ![w.id] = NoTaskDoc] ELSE ts]
    [] OTHER -> [users |-> us, tasks |-> ts]

NoBody == [name |-> ""]

\* A request as it is received: nothing read, nothing written.
NewProc(route, id, body, us, ts) ==
  [route |-> route, id |-> id, body |-> body, pc |-> "start",
   status |-> 0, message |-> "", failed |-> FALSE,
   loadedUser |-> NoUserDoc, user |-> NoUserDoc,
   loadedTask |-> NoTaskDoc, task |-> NoTaskDoc,
   found |-> <<>>, k |-> 0, target |-> 0, norm |-> <<>>, ret |-> "",
   writes |-> <<>>, users0 |-> us, tasks0 |-> ts]

Running(p) == p.pc # "done"

\* sendResponse / res.status(204).end(): the handler returns.
Done(p, status, message) ==
  [p EXCEPT !.pc = "done", !.status = status, !.message = message]

\* The outcome of one store call: the request after it, and the write made.
Res(p, w) == [proc |-> p, write |-> w]

Goto(p, pc) == [p EXCEPT !.pc = pc]

\* await normalizePendingTasksForUser(target); then go on at ret.
CallNormalize(p, target, ret) ==
  [p EXCEPT !.pc = "normalize.findById", !.target = target, !.ret = ret]

\* The Tasks PUT /users/:id found after its save that are not completed.
Incomplete(found) == SelectSeq(found, LAMBDA t : ~t.completed)

IdsOf(found) == [i \in 1..Len(found) |-> found[i].id]

\* removed = prevPending.filter(t => !user.pendingTasks.includes(t))
Removed(p) ==
  SelectSeq(p.loadedUser.pendingTasks, LAMBDA t : ~InSeq(p.user.pendingTasks, t))

\* The next Task of the loop, from position k on, that has another owner.
NextPull(found, k, userId) ==
  LET hits == {i \in k..Len(found) :
                 /\ ~found[i].completed
                 /\ found[i].assignedUser \notin {0, userId}}
  IN  IF hits = {} THEN 0 ELSE CHOOSE i \in hits : \A j \in hits : i <= j

\* Mutant: DELETE /users/:id removes the User without unassigning its Tasks.
DeleteUserAfterFindSkips(user) == "DeleteUser.deleteOne"

\* if (user.pendingTasks?.length) updateMany(...); then deleteOne.
DeleteUserAfterFind(user) ==
  IF Len(user.pendingTasks) > 0 THEN "DeleteUser.updateMany" ELSE "DeleteUser.deleteOne"

\* The code between two store calls: where the handler goes on from a point
\* of its text, up to its next await or its response.
RECURSIVE Continue(_, _)
Continue(p, label) ==
  CASE label = "PostUser.fresh" -> Goto(p, "PostUser.fresh")
    [] label = "PostTask.respond" -> Done(p, 201, "Task created")
    [] label = "PutUser.loop" ->
         LET i == NextPull(p.found, p.k, p.id)
         IN  IF i = 0 THEN Continue(p, "PutUser.assign")
             ELSE [p EXCEPT !.pc = "PutUser.pullPrev", !.k = i]
    [] label = "PutUser.assign" ->
         IF Len(Incomplete(p.found)) > 0 THEN Goto(p, "PutUser.assignTasks")
         ELSE Goto(p, "PutUser.clearPending")
    [] label = "PutUser.removed" ->
         IF Len(Removed(p)) > 0 THEN Goto(p, "PutUser.unassignRemoved")
         ELSE Goto(p, "PutUser.refresh")
    [] label = "PutUser.fresh" -> Goto(p, "PutUser.fresh")
    [] label = "PutTask.current" ->
         IF p.task.assignedUser = 0 THEN Done(p, 200, "Task updated")
         ELSE IF p.task.completed THEN Goto(p, "PutTask.pullCur")
         ELSE Goto(p, "PutTask.addCur")
    [] label = "PutTask.respond" -> Done(p, 200, "Task updated")
    [] label = "DeleteTask.deleteOne" -> Goto(p, "DeleteTask.deleteOne")
    [] OTHER -> p

\* normalizePendingTasksForUser, one store call at a time.
NormalizeStep(p, us) ==
  IF p.pc = "normalize.findById"
  THEN LET w == NormalizeWrites(us, p.target)
       IN  IF w = <<>> THEN Res(Continue(p, p.ret), NoWrite)
           ELSE Res([p EXCEPT !.pc = "normalize.updateOne", !.norm = w[1].pendingTasks],
                    NoWrite)
  ELSE Res(Continue(p, p.ret),
           [NoWrite EXCEPT !.op = "User.setPending", !.id = p.target, !.ids = p.norm])

\* The checks a handler makes before its first store call.
Validate(route, body) ==
  IF route \in {"PostUser", "PutUser"}
  THEN IF body.name = "" \/ body.email = <<>>
       THEN "User must have a name and an email"
       ELSE IF ~emailContainsAt(body.email) THEN "Invalid email format"
       ELSE IF route = "PostUser" /\ Len(body.pendingTasks) > 0
       THEN "Cannot set pendingTasks when creating a new user"
       ELSE ""
  ELSE IF route \in {"PostTask", "PutTask"}
  THEN IF body.name = "" \/ ~body.hasDeadline
       THEN "Task must have a name and a deadline"
       ELSE ""
  ELSE ""

\* The first store call of a handler.
FirstCall(route, body) ==
  CASE route = "PostUser" -> "PostUser.save"
    [] route = "PutUser" -> "PutUser.findById"
    [] route = "DeleteUser" -> "DeleteUser.findById"
    [] route = "PostTask" ->
         IF body.assignedUser # 0 THEN "PostTask.findUser" ELSE "PostTask.save"
    [] route = "PutTask" -> "PutTask.findById"
    [] OTHER -> "DeleteTask.findById"

\* The handler from its entry to its first await.
Enter(p, us) ==
  IF Validate(p.route, p.body) # ""
  THEN Done(p, 400, Validate(p.route, p.body))
  ELSE IF p.route = "PostTask" /\ p.body.assignedUser = 0
  THEN [p EXCEPT !.pc = "PostTask.save", !.task = NewTaskDoc(us, p.body)]
  ELSE Goto(p, FirstCall(p.route, p.body))

\* Mutant: the unique index reports the duplicate after the document is stored.
RejectedSaveStores(w) == w

\* A save the unique index rejects (E11000) stores nothing.
RejectedSave(w) == NoWrite

PostUserStep(p, us, newId) ==
  IF p.pc = "PostUser.save"
  THEN LET doc == [exists |-> TRUE, name |-> p.body.name, email |-> p.body.email,
                   pendingTasks |-> <<>>]
           w == [NoWrite EXCEPT !.op = "User.insert", !.id = newId, !.udoc = doc]
       IN  IF DuplicateEmail(us, newId, p.body.email)
           THEN Res(Done(p, 400, "A user with that email already exists"), RejectedSave(w))
           ELSE Res(CallNormalize([p EXCEPT !.id = newId, !.user = doc], newId,
                                  "PostUser.fresh"), w)
  ELSE Res(Done(p, 201, "User created"), NoWrite)

UserPaths == {"name", "email", "pendingTasks"}

PutUserStep(p, us, ts) ==
  CASE p.pc = "PutUser.findById" ->
         LET user == UserFindById(us, p.id)
             req == RequestedPending(p.body)
             q == [p EXCEPT !.loadedUser = user,
                            !.user = [user EXCEPT !.name = p.body.name,
                                                  !.email = p.body.email,
                                                  !.pendingTasks = req]]
         IN  IF ~user.exists THEN Res(Done(p, 404, "User not found"), NoWrite)
             ELSE IF Len(req) > 0 THEN Res(Goto(q, "PutUser.findTasks"), NoWrite)
             ELSE Res(Goto(q, "PutUser.save"), NoWrite)
    [] p.pc = "PutUser.findTasks" ->
         LET req == p.user.pendingTasks
             found == TaskFindIn(ts, req)
             missing == SelectSeq(req, LAMBDA t : ~InSeq(found, t))
         IN  IF Len(missing) > 0
             THEN Res(Done(p, 404, "One or more tasks not found"), NoWrite)
             ELSE IF HasCompleted(ts, found)
             THEN Res(Done(p, 400, "Cannot assign completed tasks as pending"), NoWrite)
             ELSE Res(Goto(p, "PutUser.save"), NoWrite)
    [] p.pc = "PutUser.save" ->
         LET paths == ModifiedPaths(p.loadedUser, p.user, UserPaths)
             w == [NoWrite EXCEPT !.op = "User.save", !.id = p.id, !.udoc = p.user,
                                  !.paths = paths]
             q == IF Len(p.user.pendingTasks) > 0 THEN Goto(p, "PutUser.findTasks2")
                  ELSE Continue(p, "PutUser.removed")
         IN  IF paths = {} THEN Res(q, NoWrite)
             ELSE IF ~UserFindById(us, p.id).exists
             THEN Res([Done(p, 500, "Error updating user") EXCEPT !.failed = TRUE], NoWrite)
             ELSE IF DuplicateEmail(us, p.id, p.user.email)
             THEN Res(Done(p, 400, "A user with that email already exists"), RejectedSave(w))
             ELSE Res(q, w)
    [] p.pc = "PutUser.findTasks2" ->
         LET ids == TaskFindIn(ts, p.user.pendingTasks)
             found == [i \in 1..Len(ids) |->
                         [id |-> ids[i], completed |-> ts[ids[i]].completed,
                          assignedUser |-> ts[ids[i]].assignedUser]]
         IN  Res(Continue([p EXCEPT !.found = found, !.k = 1], "PutUser.loop"), NoWrite)
    [] p.pc = "PutUser.pullPrev" ->
         LET t == p.found[p.k]
         IN  Res(CallNormalize([p EXCEPT !.k = p.k + 1], t.assignedUser, "PutUser.loop"),
                 [NoWrite EXCEPT !.op = "User.pull", !.id = t.assignedUser, !.tid = t.id])
    [] p.pc = "PutUser.assignTasks" ->
         Res(Goto(p, "PutUser.setPending"),
             [NoWrite EXCEPT !.op = "Task.assign", !.id = p.id, !.name = p.user.name,
                             !.ids = IdsOf(Incomplete(p.found))])
    [] p.pc = "PutUser.setPending" ->
         Res(Continue(p, "PutUser.removed"),
             [NoWrite EXCEPT !.op = "User.setPending", !.id = p.id,
                             !.ids = IdsOf(Incomplete(p.found))])
    [] p.pc = "PutUser.clearPending" ->
         Res(Continue(p, "PutUser.removed"),
             [NoWrite EXCEPT !.op = "User.setPending", !.id = p.id, !.ids = <<>>])
    [] p.pc = "PutUser.unassignRemoved" ->
         Res(Goto(p, "PutUser.refresh"),
             [NoWrite EXCEPT !.op = "Task.unassignRemoved", !.ids = Removed(p)])
    [] p.pc = "PutUser.refresh" ->
         Res(CallNormalize(p, p.id, "PutUser.fresh"),
             [NoWrite EXCEPT !.op = "Task.refreshName", !.id = p.id, !.name = p.user.name])
    [] OTHER -> Res(Done(p, 200, "User updated"), NoWrite)

DeleteUserStep(p, us) ==
  CASE p.pc = "DeleteUser.findById" ->
         LET user == UserFindById(us, p.id)
         IN  IF ~user.exists THEN Res(Done(p, 404, "User not found"), NoWrite)
             ELSE Res(Goto([p EXCEPT !.loadedUser = user, !.user = user],
                           DeleteUserAfterFind(user)), NoWrite)
    [] p.pc = "DeleteUser.updateMany" ->
         Res(Goto(p, "DeleteUser.deleteOne"),
             [NoWrite EXCEPT !.op = "Task.unassignPending", !.ids = p.user.pendingTasks])
    [] OTHER ->
         Res(Done(p, 204, ""), [NoWrite EXCEPT !.op = "User.deleteOne", !.id = p.id])

PostTaskStep(p, us, newId) ==
  CASE p.pc = "PostTask.findUser" ->
         LET assignedUserDoc == UserFindById(us, p.body.assignedUser)
         IN  IF ~assignedUserDoc.exists
             THEN Res(Done(p, 404, "Assigned user not found"), NoWrite)
             ELSE IF /\ p.body.hasAssignedUserName
                     /\ p.body.assignedUserName # assignedUserDoc.name
             THEN Res(Done(p, 400, "assignedUserName does not match user record"), NoWrite)
             ELSE Res([p EXCEPT !.pc = "PostTask.save", !.task = NewTaskDoc(us, p.body)],
                      NoWrite)
    [] p.pc = "PostTask.save" ->
         Res(IF p.task.assignedUser # 0 /\ ~p.task.completed
             THEN [p EXCEPT !.pc = "PostTask.addToSet", !.id = newId]
             ELSE Done([p EXCEPT !.id = newId], 201, "Task created"),
             [NoWrite EXCEPT !.op = "Task.insert", !.id = newId, !.tdoc = p.task])
    [] OTHER ->
         Res(CallNormalize(p, p.task.assignedUser, "PostTask.respond"),
             [NoWrite EXCEPT !.op = "User.addToSet", !.id = p.task.assignedUser,
                             !.tid = p.id])

TaskPaths == {"name", "completed", "assignedUser", "assignedUserName"}

PutTaskStep(p, us, ts) ==
  CASE p.pc = "PutTask.findById" ->
         LET stored == TaskFindById(ts, p.id)
             q == [p EXCEPT !.loadedTask = stored]
         IN  IF ~stored.exists THEN Res(Done(p, 404, "Task not found"), NoWrite)
             ELSE IF CannotModify(stored)
             THEN Res(Done(p, 400, "Cannot modify a completed task"), NoWrite)
             ELSE IF p.body.assignedUser # 0 THEN Res(Goto(q, "PutTask.findUser"), NoWrite)
             ELSE Res([q EXCEPT !.pc = "PutTask.save", !.task = UpdatedTaskDoc(us, p.body)],
                      NoWrite)
    [] p.pc = "PutTask.findUser" ->
         LET assignedUserDoc == UserFindById(us, p.body.assignedUser)
         IN  IF ~assignedUserDoc.exists
             THEN Res(Done(p, 404, "Assigned user not found"), NoWrite)
             ELSE IF /\ p.body.hasAssignedUserName
                     /\ ToLowerCase(p.body.assignedUserName) # Unassigned
                     /\ p.body.assignedUserName # assignedUserDoc.name
             THEN Res(Done(p, 400, "assignedUserName does not match user record"), NoWrite)
             ELSE Res([p EXCEPT !.pc = "PutTask.save", !.task = UpdatedTaskDoc(us, p.body)],
                      NoWrite)
    [] p.pc = "PutTask.save" ->
         LET paths == ModifiedPaths(p.loadedTask, p.task, TaskPaths)
             prevAssigned == p.loadedTask.assignedUser
             q == IF prevAssigned # 0 /\ prevAssigned # p.task.assignedUser
                  THEN Goto(p, "PutTask.pullPrev")
                  ELSE Continue(p, "PutTask.current")
         IN  IF paths = {} THEN Res(q, NoWrite)
             ELSE IF ~TaskFindById(ts, p.id).exists
             THEN Res([Done(p, 500, "") EXCEPT !.failed = TRUE], NoWrite)
             ELSE Res(q, [NoWrite EXCEPT !.op = "Task.save", !.id = p.id, !.tdoc = p.task,
                                         !.paths = paths])
    [] p.pc = "PutTask.pullPrev" ->
         Res(CallNormalize(p, p.loadedTask.assignedUser, "PutTask.current"),
             [NoWrite EXCEPT !.op = "User.pull", !.id = p.loadedTask.assignedUser,
                             !.tid = p.id])
    [] p.pc = "PutTask.pullCur" ->
         Res(CallNormalize(p, p.task.assignedUser, "PutTask.respond"),
             [NoWrite EXCEPT !.op = "User.pull", !.id = p.task.assignedUser, !.tid = p.id])
    [] OTHER ->
         Res(CallNormalize(p, p.task.assignedUser, "PutTask.respond"),
             [NoWrite EXCEPT !.op = "User.addToSet", !.id = p.task.assignedUser,
                             !.tid = p.id])

DeleteTaskStep(p, ts) ==
  CASE p.pc = "DeleteTask.findById" ->
         LET task == TaskFindById(ts, p.id)
             q == [p EXCEPT !.loadedTask = task, !.task = task]
         IN  IF ~task.exists THEN Res(Done(p, 404, "Task not found"), NoWrite)
             ELSE IF task.assignedUser # 0 THEN Res(Goto(q, "DeleteTask.pull"), NoWrite)
             ELSE Res(Goto(q, "DeleteTask.deleteOne"), NoWrite)
    [] p.pc = "DeleteTask.pull" ->
         Res(CallNormalize(p, p.task.assignedUser, "DeleteTask.deleteOne"),
             [NoWrite EXCEPT !.op = "User.pull", !.id = p.task.assignedUser, !.tid = p.id])
    [] OTHER ->
         Res(Done(p, 204, ""), [NoWrite EXCEPT !.op = "Task.deleteOne", !.id = p.id])

\* The store call the request is about to make, and what it answers.
StoreCall(p, us, ts, newUserId, newTaskId) ==
  IF p.pc \in {"normalize.findById", "normalize.updateOne"} THEN NormalizeStep(p, us)
  ELSE CASE p.route = "PostUser" -> PostUserStep(p, us, newUserId)
         [] p.route = "PutUser" -> PutUserStep(p, us, ts)
         [] p.route = "DeleteUser" -> DeleteUserStep(p, us)
         [] p.route = "PostTask" -> PostTaskStep(p, us, newTaskId)
         [] p.route = "PutTask" -> PutTaskStep(p, us, ts)
         [] OTHER -> DeleteTaskStep(p, ts)

\* catch (err) / asyncHandler's catch(next): the message of the 500 answer.
FailureMessage(p) ==
  IF p.route = "PostUser" THEN "Error creating user"
  ELSE IF p.route = "PutUser" THEN "Error updating user"
  ELSE IF p.route = "PostTask" /\ p.pc # "PostTask.findUser" THEN "Error creating task"
  ELSE ""

\* Mutant: the handler undoes the writes it made before the failure.
AfterFailureRollsBack(p, us, ts) == [users |-> p.users0, tasks |-> p.tasks0]

\* The catch blocks answer and make no store call.
AfterFailure(p, us, ts) == [users |-> us, tasks |-> ts]

InFlight(route) == Cardinality({i \in 1..Len(procs) : Running(procs[i]) /\ procs[i].route = route})

\* A request arrives while fewer than limit requests have been received; the
\* handler runs up to its first store call.
Receive(route, id, body, limit) ==
  /\ Len(procs) < limit
  /\ route = "PostUser" => nextUserId + InFlight("PostUser") <= MaxUsers
  /\ route = "PostTask" => nextTaskId + InFlight("PostTask") <= MaxTasks
  /\ procs' = Append(procs, Enter(NewProc(route, id, body, users, tasks), users))
  /\ UNCHANGED <<users, tasks, nextUserId, nextTaskId, last, reply, calls>>

\* The store serves the call request i is waiting for.
Serve(i) ==
  LET r == StoreCall(procs[i], users, tasks, nextUserId, nextTaskId)
      store == ApplyWrite(r.write, users, tasks)
  IN  /\ Running(procs[i])
      /\ users' = store.users
      /\ tasks' = store.tasks
      /\ nextUserId' = IF r.write.op = "User.insert" THEN nextUserId + 1 ELSE nextUserId
      /\ nextTaskId' = IF r.write.op = "Task.insert" THEN nextTaskId + 1 ELSE nextTaskId
      /\ procs' = [procs EXCEPT ![i] =
                     [r.proc EXCEPT !.writes = IF IsWrite(r.write)
                                               THEN Append(@, r.write) ELSE @]]
      /\ UNCHANGED <<last, reply, calls>>

\* The store call request i is waiting for throws.
Throw(i) ==
  LET p == procs[i]
      store == AfterFailure(p, users, tasks)
  IN  /\ Running(p)
      /\ users' = store.users
      /\ tasks' = store.tasks
      /\ procs' = [procs EXCEPT ![i] = [Done(p, 500, FailureMessage(p)) EXCEPT !.failed = TRUE]]
      /\ UNCHANGED <<nextUserId, nextTaskId, last, reply, calls>>

\* Stores the write routes reach: User 1, User 2 or not, and each of Tasks 1
\* and 2 missing, unassigned, or assigned to a stored User, completed or not;
\* pendingTasks holds the pending Tasks of each User.
TaskStates(owners) ==
  {[exists |-> FALSE, completed |-> FALSE, assignedUser |-> 0]}
  \cup [exists : {TRUE}, completed : BOOLEAN, assignedUser : {0} \cup owners]

SeedUser(u, stored, shape) ==
  IF u \notin stored THEN NoUserDoc
  ELSE [exists |-> TRUE,
        name |-> IF u = 1 THEN "alice" ELSE "bob",
        email |-> IF u = 1 THEN <<"a", "@", "x">> ELSE <<"b", "@", "x">>,
        pendingTasks |->
          SelectSeq([i \in 1..MaxTasks |-> i],
                    LAMBDA t : /\ t \in DOMAIN shape /\ shape[t].exists
                               /\ ~shape[t].completed /\ shape[t].assignedUser = u)]

SeedTask(t, shape) ==
  IF t \notin DOMAIN shape \/ ~shape[t].exists THEN NoTaskDoc
  ELSE [exists |-> TRUE, name |-> "A", completed |-> shape[t].completed,
        assignedUser |-> shape[t].assignedUser,
        assignedUserName |-> IF shape[t].assignedUser = 0 THEN Unassigned
                             ELSE IF shape[t].assignedUser = 1 THEN "alice" ELSE "bob"]

SeedStores ==
  {[users |-> [u \in UserIds |-> SeedUser(u, stored, shape)],
    tasks |-> [t \in TaskIds |-> SeedTask(t, shape)],
    nextUserId |-> Cardinality(stored) + 1,
    nextTaskId |-> IF shape[2].exists THEN 3 ELSE IF shape[1].exists THEN 2 ELSE 1] :
     stored \in {{1}, {1, 2}}, shape \in [1..2 -> TaskStates({1, 2})]}

InitSeeded(stores) ==
  /\ \E s \in stores :
       /\ \A t \in 1..2 : s.tasks[t].assignedUser # 0 => s.users[s.tasks[t].assignedUser].exists
       /\ users = s.users
       /\ tasks = s.tasks
       /\ nextUserId = s.nextUserId
       /\ nextTaskId = s.nextTaskId
  /\ last = Served("None", 0, 0, <<>>, {})
  /\ reply = NoReply
  /\ calls = <<>>
  /\ procs = <<>>

\* --------------------------------------------- one request, store may fail
InitFail == InitSeeded(SeedStores)

NextFail ==
  \/ \E body \in NewUserBodies : Receive("PostUser", 0, body, 1)
  \/ \E id \in UserIds, body \in UserBodies : Receive("PutUser", id, body, 1)
  \/ \E id \in UserIds : Receive("DeleteUser", id, NoBody, 1)
  \/ \E body \in TaskBodies : Receive("PostTask", 0, body, 1)
  \/ \E id \in TaskIds, body \in TaskBodies : Receive("PutTask", id, body, 1)
  \/ \E id \in TaskIds : Receive("DeleteTask", id, NoBody, 1)
  \/ \E i \in 1..Len(procs) : Serve(i)
  \/ \E i \in 1..Len(procs) : Throw(i)

SpecFail == InitFail /\ [][NextFail]_vars

\* The store after the writes ws, made in this order.
RECURSIVE Replay(_, _, _)
Replay(ws, us, ts) ==
  IF ws = <<>> THEN [users |-> us, tasks |-> ts]
  ELSE LET store == ApplyWrite(Head(ws), us, ts)
       IN  Replay(Tail(ws), store.users, store.tasks)

\* C14: a request whose store call failed after it made k writes has been
\* answered with an error (500), makes no further store call, and has left
\* the store as those k writes made it: nothing is rolled back.
C14_NoRollback ==
  \A i \in 1..Len(procs) :
    procs[i].failed
    => /\ procs[i].status = 500
       /\ ~Running(procs[i])
       /\ ~ENABLED Serve(i)
       /\ Replay(procs[i].writes, procs[i].users0, procs[i].tasks0)
            = [users |-> users, tasks |-> tasks]

C14_Witness ==
  \E i \in 1..Len(procs) :
    /\ procs[i].failed
    /\ procs[i].route = "PutUser"
    /\ Len(procs[i].writes) >= 2
    /\ users # procs[i].users0
    /\ tasks # procs[i].tasks0

\* C15: a request answered 400 or 404 has made no write, and every User and
\* every Task is as it was when the request arrived.
C15_RejectedWritesNothing ==
  \A i \in 1..Len(procs) :
    procs[i].status \in {400, 404}
    => /\ procs[i].writes = <<>>
       /\ users = procs[i].users0
       /\ tasks = procs[i].tasks0

C15_Witness ==
  \E i \in 1..Len(procs) :
    /\ procs[i].route = "PutUser"
    /\ procs[i].status = 400
    /\ procs[i].message = "A user with that email already exists"
    /\ procs[i].user.pendingTasks # procs[i].loadedUser.pendingTasks

HasWrite(p, op) == \E j \in 1..Len(p.writes) : p.writes[j].op = op

\* C17: DELETE /users/:id removes the User only after the write that
\* unassigns the Tasks of its pendingTasks, and DELETE /tasks/:id removes
\* the Task only after the write that pulls its id from the assignee's
\* pendingTasks; no record is removed with its cleanup still to be made.
C17_CleanupBeforeDelete ==
  \A i \in 1..Len(procs) :
    LET p == procs[i]
    IN  /\ (p.route = "DeleteUser" /\ HasWrite(p, "User.deleteOne"))
           => /\ Len(p.loadedUser.pendingTasks) > 0
                 => \E j, k \in 1..Len(p.writes) :
                      /\ j < k
                      /\ p.writes[j].op = "Task.unassignPending"
                      /\ p.writes[j].ids = p.loadedUser.pendingTasks
                      /\ p.writes[k].op = "User.deleteOne"
              /\ ~users[p.id].exists
              /\ \A t \in TaskIds :
                   InSeq(p.loadedUser.pendingTasks, t) => tasks[t].assignedUser # p.id
        /\ (p.route = "DeleteTask" /\ HasWrite(p, "Task.deleteOne"))
           => /\ p.loadedTask.assignedUser # 0
                 => \E j, k \in 1..Len(p.writes) :
                      /\ j < k
                      /\ p.writes[j].op = "User.pull"
                      /\ p.writes[j].id = p.loadedTask.assignedUser
                      /\ p.writes[j].tid = p.id
                      /\ p.writes[k].op = "Task.deleteOne"
              /\ ~tasks[p.id].exists
              /\ \A u \in UserIds : ~InSeq(users[u].pendingTasks, p.id)

C17_Witness ==
  \E i \in 1..Len(procs) :
    /\ procs[i].route = "DeleteUser"
    /\ procs[i].status = 204
    /\ Len(procs[i].loadedUser.pendingTasks) = 2
    /\ Len(procs[i].writes) = 2

\* ------------------------------------------------ requests served together
MaxInFlight == 2

\* Two stores: Users 1 and 2 with Task 1 pending with User 1 and Task id 2
\* still to be handed out; and User 1 alone with its pending Task 1, Task 2
\* unassigned, and User id 2 still to be handed out.
ConcStores ==
  {s \in SeedStores :
     /\ s.tasks[1].exists /\ ~s.tasks[1].completed /\ s.tasks[1].assignedUser = 1
     /\ \/ s.users[2].exists /\ ~s.tasks[2].exists
        \/ /\ ~s.users[2].exists /\ s.tasks[2].exists
           /\ ~s.tasks[2].completed /\ s.tasks[2].assignedUser = 0}

InitConc == InitSeeded(ConcStores)

\* Well-formed bodies: a request that fails its first checks makes no store
\* call and so interleaves with nothing.
ConcUserBodies ==
  {b \in UserBodies : /\ b.name = "alice" /\ emailContainsAt(b.email)
                      /\ b.pendingIsArray /\ NoDuplicates(b.pendingTasks)}

ConcTaskBodies ==
  {b \in TaskBodies : b.name # "" /\ b.hasDeadline /\ ~b.hasAssignedUserName
                      /\ b.completed \in {"true", "false"}}

NextConc ==
  \/ \E body \in ConcUserBodies : body.pendingTasks = <<>> /\ Receive("PostUser", 0, body, MaxInFlight)
  \/ \E id \in UserIds, body \in ConcUserBodies : Receive("PutUser", id, body, MaxInFlight)
  \/ \E id \in UserIds : Receive("DeleteUser", id, NoBody, MaxInFlight)
  \/ \E body \in ConcTaskBodies : Receive("PostTask", 0, body, MaxInFlight)
  \/ \E id \in TaskIds, body \in ConcTaskBodies : Receive("PutTask", id, body, MaxInFlight)
  \/ \E id \in TaskIds : Receive("DeleteTask", id, NoBody, MaxInFlight)
  \/ \E i \in 1..Len(procs) : Serve(i)

SpecConc == InitConc /\ [][NextConc]_vars

\* Every request received has been answered.
Quiescent == \A i \in 1..Len(procs) : ~Running(procs[i])

\* C13 as claimed: however the store calls of the requests in flight are
\* interleaved, once every request has been answered each Task that is not
\* completed and is assigned to a User u is exactly once in u's pendingTasks,
\* and no completed or unassigned Task is in any User's pendingTasks.
C13_ConsistentWhenQuiescent ==
  Quiescent
  => \A t \in StoredTasks :
       IF Pending(t)
       THEN /\ tasks[t].assignedUser \in StoredUsers
            /\ Count(users[tasks[t].assignedUser].pendingTasks, t) = 1
       ELSE \A u \in StoredUsers : ~InSeq(users[u].pendingTasks, t)

====
